---- MODULE Spec2Model ----
(***************************************************************************)
(* Model of src/wings/merge.py: the single-header amalgamation script.     *)
(*                                                                         *)
(* A text (Python str) is a sequence of one-character strings, so that     *)
(* splitlines, startswith, split, strip, join and format are computed as   *)
(* the code computes them.  A pathlib.Path is the sequence of its parts    *)
(* below the filesystem root; str(path) is a text.  The platform is POSIX  *)
(* (os.sep = "/").                                                         *)
(***************************************************************************)
EXTENDS Integers, Sequences, FiniteSets, TLC

VARIABLES
    fs,          \* the source tree: canonical path -> text the file holds
    unreadable,  \* canonical paths whose open() raises (permissions)
    listing,     \* the order in which glob("*.cpp") yields the directory's entries
    outDir,      \* whether ../single_include exists
    outFile,     \* text of ../single_include/wings.h, or Absent
    prevOut,     \* outFile as it was when the current process started
    run,         \* number of the current execution of the script
    seen,        \* merge.py:7, the module-level set of str(path)
    source,      \* main's local `source` (merge.py:52)
    k,           \* how many entries of `source` the generator of line 66 has consumed
    decl,        \* value of process_file(main_header), first argument of fmt.format
    impl,        \* the "".join(...) accumulated so far, second argument of fmt.format
    stack,       \* active process_file frames: [path, raw, todo, content]
    reads,       \* canonical paths on which open(path).read() succeeded in this run
    pc,          \* position of main: "start", "root", "units", "done", "failed"
    err,         \* exception that ended the run: "none", "OSError", "RecursionError"
    t,           \* input text of the pragma-strip specification
    once,        \* remove_pragma_once(t), or Absent while not computed
    twice        \* remove_pragma_once(remove_pragma_once(t)), or Absent

vars == <<fs, unreadable, listing, outDir, outFile, prevOut, run, seen, source, k,
          decl, impl, stack, reads, pc, err, t, once, twice>>

treeVars == <<fs, unreadable, listing>>
pragmaVars == <<t, once, twice>>

---------------------------------------------------------------------------
(* Bounds *)

\* stands for Python's recursion limit (sys.getrecursionlimit(), 1000 by default)
MaxDepth == 6
\* executions of the script that are modelled one after the other
MaxRuns == 2
\* pieces an input text of the pragma-strip specification is made of
MaxPieces == 4

---------------------------------------------------------------------------
(* str methods *)

NL == "\n"
\* line boundaries of str.splitlines that the model's alphabet contains
LineBreaks == {"\n", "\r", "\f"}
\* characters str.split() treats as whitespace
Whitespace == {" ", "\t", "\n", "\r", "\f"}

Range(s) == {s[i] : i \in 1..Len(s)}

Front(s) == SubSeq(s, 1, Len(s) - 1)

Last(s) == s[Len(s)]

\* x.startswith(prefix)
StartsWith(x, prefix) ==
    /\ Len(x) >= Len(prefix)
    /\ SubSeq(x, 1, Len(prefix)) = prefix

\* x.endswith(suffix)
EndsWith(x, suffix) ==
    /\ Len(x) >= Len(suffix)
    /\ SubSeq(x, Len(x) - Len(suffix) + 1, Len(x)) = suffix

\* the indices of s, in order
Indices(s) == [i \in 1..Len(s) |-> i]

\* s.splitlines(): no empty last line after a final line boundary, "\r\n" is one boundary
Splitlines(s) ==
    LET B == SelectSeq(Indices(s), LAMBDA i : s[i] \in LineBreaks /\ ~(s[i] = NL /\ i > 1 /\ s[i - 1] = "\r"))
        After(b) == IF b < Len(s) /\ s[b] = "\r" /\ s[b + 1] = NL THEN b + 2 ELSE b + 1
        From(n) == IF n = 1 THEN 1 ELSE After(B[n - 1])
        rest == From(Len(B) + 1) <= Len(s)
    IN  [n \in 1..(Len(B) + IF rest THEN 1 ELSE 0) |->
            SubSeq(s, From(n), IF n <= Len(B) THEN B[n] - 1 ELSE Len(s))]

\* s.split(c) for a one-character separator: empty fields are kept
SplitOn(s, c) ==
    LET B == SelectSeq(Indices(s), LAMBDA i : s[i] = c)
    IN  [n \in 1..(Len(B) + 1) |->
            SubSeq(s, IF n = 1 THEN 1 ELSE B[n - 1] + 1, IF n <= Len(B) THEN B[n] - 1 ELSE Len(s))]

\* s.split(): the fields between runs of whitespace
Split(s) == SelectSeq(SplitOn([i \in 1..Len(s) |-> IF s[i] \in Whitespace THEN " " ELSE s[i]], " "),
                   LAMBDA x : x # <<>>)

RECURSIVE LStrip(_, _)
LStrip(s, c) == IF s # <<>> /\ Head(s) = c THEN LStrip(Tail(s), c) ELSE s

RECURSIVE RStrip(_, _)
RStrip(s, c) == IF s # <<>> /\ Last(s) = c THEN RStrip(Front(s), c) ELSE s

\* s.strip(c) for a one-character c
Strip(s, c) == RStrip(LStrip(s, c), c)

RECURSIVE Join(_, _)
\* sep.join(xs)
Join(xs, sep) ==
    IF xs = <<>> THEN <<>>
    ELSE IF Len(xs) = 1 THEN xs[1]
    ELSE xs[1] \o sep \o Join(Tail(xs), sep)

RECURSIVE Concat(_)
\* "".join(xs)
Concat(xs) == IF xs = <<>> THEN <<>> ELSE Head(xs) \o Concat(Tail(xs))

---------------------------------------------------------------------------
(* merge.py, lines 5-30 *)

IGNORE == {<<"m","a","i","n",".","c","p","p">>,
           <<"t","e","s","t","s",".","h">>,
           <<"t","e","s","t","s",".","c","p","p">>,
           <<"c","p","p",".","h","i","n","t">>}

Sep == "/"

IncludePrefix == <<"#","i","n","c","l","u","d","e"," ","\"">>

PragmaPrefix == <<"#","p","r","a","g","m","a"," ","o","n","c","e">>

\* str(path) of an absolute path
Str(path) == IF path = <<>> THEN <<Sep>> ELSE Concat([i \in 1..Len(path) |-> <<Sep>> \o path[i]])

\* should_ignore without the split: the whole path string is compared
ShouldIgnoreWhole(path) == Str(path) \in IGNORE

\* should_ignore
ShouldIgnore(path) == Last(SplitOn(Str(path), Sep)) \in IGNORE

IsInclude(x) == StartsWith(x, IncludePrefix)

IsPragma(x) == StartsWith(x, PragmaPrefix)

\* get_includes
GetIncludes(s) ==
    LET lines == SelectSeq(Splitlines(s), IsInclude)
    IN  [i \in 1..Len(lines) |-> Strip(Split(lines[i])[2], "\"")]

\* remove_includes testing for the angle-bracket form instead of the quoted one
AnglePrefix == <<"#","i","n","c","l","u","d","e"," ","<">>

RemoveIncludesAngle(s) == Join(SelectSeq(Splitlines(s), LAMBDA x : ~StartsWith(x, AnglePrefix)), <<NL>>)

\* remove_includes
RemoveIncludes(s) == Join(SelectSeq(Splitlines(s), LAMBDA x : ~IsInclude(x)), <<NL>>)

\* remove_pragma_once with split("\n") in place of splitlines()
RemovePragmaOnceSplitNl(s) == Join(SelectSeq(SplitOn(s, NL), LAMBDA x : ~IsPragma(x)), <<NL>>) \o <<NL>>

\* remove_pragma_once
RemovePragmaOnce(s) == Join(SelectSeq(Splitlines(s), LAMBDA x : ~IsPragma(x)), <<NL>>) \o <<NL>>

---------------------------------------------------------------------------
(* pathlib and the file system *)

DotDot == <<".",".">>

Dot == <<".">>

\* the parts pathlib keeps of a path string: empty and "." segments are dropped, ".." is kept
ParseParts(name) == SelectSeq(SplitOn(name, Sep), LAMBDA x : x # <<>> /\ x # Dot)

\* path.parent
Parent(path) == IF path = <<>> THEN <<>> ELSE Front(path)

\* base.joinpath(name): an absolute name replaces base
JoinPath(base, name) ==
    IF name # <<>> /\ Head(name) = Sep THEN ParseParts(name) ELSE base \o ParseParts(name)

Absent == <<"absent">>

NoEntry == <<Absent>>

Dirs == UNION {{SubSeq(p, 1, n) : n \in 0..(Len(p) - 1)} : p \in DOMAIN fs}

RECURSIVE Walk(_, _, _)
Walk(path, i, cur) ==
    IF i > Len(path) THEN cur
    ELSE IF cur \notin Dirs THEN NoEntry
    ELSE IF path[i] = DotDot
         THEN Walk(path, i + 1, Parent(cur))
         ELSE Walk(path, i + 1, Append(cur, path[i]))

\* the directory entry the operating system resolves a path to, or NoEntry
Canon(path) == Walk(path, 1, <<>>)

\* whether open(path) succeeds
CanOpen(path) == Canon(path) \in DOMAIN fs /\ Canon(path) \notin unreadable

\* newline translation of text mode: "\r\n" and "\r" are read as "\n"
Universal(s) ==
    LET kept == SelectSeq(Indices(s), LAMBDA i : ~(s[i] = NL /\ i > 1 /\ s[i - 1] = "\r"))
    IN  [n \in 1..Len(kept) |-> IF s[kept[n]] = "\r" THEN NL ELSE s[kept[n]]]

\* open(path).read() in text mode: universal newlines
ReadText(path) == Universal(fs[Canon(path)])

---------------------------------------------------------------------------
(* The source trees the runs are checked on *)

InputPath == <<<<"i","n">>>>

\* merge.py:53
MainHeader == JoinPath(InputPath, <<"w","i","n","g","s",".","h">>)

P_a == <<<<"i","n">>, <<"a",".","x">>>>
P_c == <<<<"i","n">>, <<"s","u","b">>, <<"c",".","h">>>>
P_u == <<<<"i","n">>, <<"u",".","c","p","p">>>>
P_v == <<<<"i","n">>, <<"v",".","c","p","p">>>>
P_main == <<<<"i","n">>, <<"m","a","i","n",".","c","p","p">>>>
P_tests == <<<<"i","n">>, <<"t","e","s","t","s",".","h">>>>
P_only == <<<<"i","n">>, <<"o","n","l","y",".","h">>>>

Include(name) == IncludePrefix \o name \o <<"\"">>

File(lines) == Join(lines, <<NL>>) \o <<NL>>

ExampleRoot == Join(<<Include(<<"a",".","x">>), <<"R","-","b","o","d","y">>>>, <<NL>>)
ExampleA == <<"A","-","b","o","d","y">>
ExampleU == Join(<<Include(<<"a",".","x">>), <<"U","-","b","o","d","y">>>>, <<NL>>)

RootMenu == {
    ExampleRoot,
    File(<<PragmaPrefix, Include(<<"a",".","x">>), Include(<<"s","u","b","/","c",".","h">>), <<"R","-","b","o","d","y">>>>),
    File(<<Include(<<"s","u","b","/","c",".","h">>), Include(<<".","/","a",".","x">>), <<"R","-","b","o","d","y">>>>),
    File(<<Include(<<"t","e","s","t","s",".","h">>), Include(<<"w","i","n","g","s",".","h">>), <<"R","-","b","o","d","y">>>>),
    Absent }

AMenu == {
    ExampleA,
    Join(<<PragmaPrefix, Include(<<"w","i","n","g","s",".","h">>), <<"A","-","b","o","d","y">>>>, <<"\r","\n">>),
    File(<<Include(<<"s","u","b","/","c",".","h">>), <<"A","-","b","o","d","y">>>>) }

\* the text of sub/c.h in the trees where it cannot be read
Locked == File(<<<<"C","-","l","o","c","k","e","d">>>>)

CMenu == {
    File(<<<<"C","-","b","o","d","y">>>>),
    File(<<Include(<<".",".","/","a",".","x">>), <<"C","-","b","o","d","y">>>>),
    File(<<Include(<<"n","o","p","e",".","h">>), <<"C","-","b","o","d","y">>>>),
    Locked }

UMenu == {
    ExampleU,
    File(<<Include(<<"w","i","n","g","s",".","h">>), Include(<<"s","u","b","/","c",".","h">>), <<"U","-","b","o","d","y">>>>),
    Absent }

VMenu == {
    File(<<Include(<<"m","a","i","n",".","c","p","p">>), Include(<<"a",".","x">>), <<"V","-","b","o","d","y">>>>),
    Absent }

MainCpp == File(<<Include(<<"o","n","l","y",".","h">>), <<"M","-","b","o","d","y">>>>)
TestsH == File(<<<<"T","-","b","o","d","y">>>>)
OnlyH == File(<<<<"O","-","b","o","d","y">>>>)

\* an output file left by an earlier build
Stale == <<"o","l","d","\n">>

Tree(r, a, c, u, v) ==
    LET all == (MainHeader :> r) @@ (P_a :> a) @@ (P_c :> c) @@ (P_u :> u) @@ (P_v :> v)
               @@ (P_main :> MainCpp) @@ (P_tests :> TestsH) @@ (P_only :> OnlyH)
    IN  [p \in {q \in DOMAIN all : all[q] # Absent} |-> all[p]]

\* input_path.glob("*.cpp") as a set: the entries of input_path whose name ends in .cpp
Glob(tree) == {p \in DOMAIN tree : Parent(p) = InputPath /\ EndsWith(Last(p), <<".","c","p","p">>)}

Orders(S) == {o \in [1..Cardinality(S) -> S] : \A i, j \in 1..Cardinality(S) : o[i] = o[j] => i = j}

---------------------------------------------------------------------------
(* merge.py, lines 32-72 *)

\* merge.py:57-63
Format(a, b) ==
    <<NL>> \o a \o <<NL>>
    \o <<"/","/","/","/","/","/","/","/","/","/","/","/","/","/","/","/","/"," ","I","m","p","l","e","m","e","n","t","a","t","i","o","n"," ","/","/","/","/","/","/","/","/","/","/","/","/","/","/","/","/","/","/","/","/","/","/","/","/">> \o <<NL>>
    \o <<"#","i","f","d","e","f"," ","W","I","N","G","S","_","I","M","P","L">> \o <<NL>>
    \o b \o <<NL>>
    \o <<"#","e","n","d","i","f"," ","/","/"," ","#","i","f","d","e","f"," ","W","I","N","G","S","_","I","M","P","L">> \o <<NL>>

\* process_file appending its own body before its includes
BodyFirst(content, raw) == RemoveIncludes(raw) \o <<NL, NL>> \o content

\* merge.py:43-44: what process_file returns once its includes are flattened
Flattened(content, raw) == content \o RemoveIncludes(raw) \o <<NL, NL>>

\* process_file without line 35
NotAdded(s, path) == s

\* merge.py:35
SeenAdd(s, path) == s \cup {Str(path)}

Top == stack[Len(stack)]

\* a call of process_file is about to be made: by a frame (line 42) or by main (lines 65-66)
HasPending ==
    IF stack # <<>> THEN Top.todo # <<>>
    ELSE \/ pc = "root"
         \/ pc = "units" /\ k < Len(source)

\* the argument of that call
Pending ==
    IF stack # <<>> THEN JoinPath(Parent(Top.path), Head(Top.todo))
    ELSE IF pc = "root" THEN MainHeader
    ELSE source[k + 1]

\* merge.py:33
SkipCond(path) == Str(path) \in seen \/ ShouldIgnore(path)

\* the caller (the frame on top of stk, or main) receives the value of its call
Deliver(text, stk) ==
    IF stk # <<>>
    THEN /\ stack' = [stk EXCEPT ![Len(stk)] =
                         [@ EXCEPT !.content = @ \o text, !.todo = Tail(@)]]
         /\ UNCHANGED <<pc, decl, impl, k>>
    ELSE IF pc = "root"
    THEN /\ stack' = <<>>
         /\ decl' = text
         /\ pc' = "units"
         /\ UNCHANGED <<impl, k>>
    ELSE /\ stack' = <<>>
         /\ impl' = impl \o text
         /\ k' = k + 1
         /\ UNCHANGED <<pc, decl>>

Locals == <<source, k, decl, impl, stack>>

Init ==
    /\ \E r \in RootMenu, a \in AMenu, c \in CMenu, u \in UMenu, v \in VMenu :
          /\ fs = Tree(r, a, c, u, v)
          /\ listing \in Orders(Glob(Tree(r, a, c, u, v)))
          /\ unreadable \in IF c = Locked THEN {{P_c}} ELSE {{}}
    /\ outDir = FALSE
    /\ outFile = Stale
    /\ prevOut = outFile
    /\ run = 1
    /\ seen = {}
    /\ source = <<>>
    /\ k = 0
    /\ decl = <<>>
    /\ impl = <<>>
    /\ stack = <<>>
    /\ reads = {}
    /\ pc = "start"
    /\ err = "none"
    /\ t = <<>>
    /\ once = Absent
    /\ twice = Absent

\* merge.py:48-55
Start ==
    /\ pc = "start"
    /\ source' = SelectSeq(listing, LAMBDA f : ~ShouldIgnore(f))
    /\ outDir' = TRUE
    /\ pc' = "root"
    /\ UNCHANGED <<treeVars, pragmaVars, outFile, prevOut, run, seen, k, decl, impl,
                   stack, reads, err>>

\* merge.py:33-34: the call returns "" at once
Skip ==
    /\ HasPending
    /\ SkipCond(Pending)
    /\ Deliver(<<>>, stack)
    /\ UNCHANGED <<treeVars, pragmaVars, outDir, outFile, prevOut, run, seen, source,
                   reads, err>>

\* merge.py:35-41: the path is recorded, the file read, and its includes are pending
Enter ==
    /\ HasPending
    /\ ~SkipCond(Pending)
    /\ Len(stack) < MaxDepth
    /\ CanOpen(Pending)
    /\ seen' = SeenAdd(seen, Pending)
    /\ reads' = reads \cup {Canon(Pending)}
    /\ stack' = Append(stack, [path |-> Pending,
                               raw |-> ReadText(Pending),
                               todo |-> GetIncludes(ReadText(Pending)),
                               content |-> <<>>])
    /\ UNCHANGED <<treeVars, pragmaVars, outDir, outFile, prevOut, run, source, k,
                   decl, impl, pc, err>>

\* process_file catching the error of open and returning ""
Swallowed ==
    /\ HasPending
    /\ ~SkipCond(Pending)
    /\ Len(stack) < MaxDepth
    /\ ~CanOpen(Pending)
    /\ seen' = SeenAdd(seen, Pending)
    /\ Deliver(<<>>, stack)
    /\ UNCHANGED <<treeVars, pragmaVars, outDir, outFile, prevOut, run, source,
                   reads, err>>

\* merge.py:35-38: open raises, nothing catches it, the process ends
EnterFail ==
    /\ HasPending
    /\ ~SkipCond(Pending)
    /\ Len(stack) < MaxDepth
    /\ ~CanOpen(Pending)
    /\ seen' = SeenAdd(seen, Pending)
    /\ stack' = <<>>
    /\ pc' = "failed"
    /\ err' = "OSError"
    /\ UNCHANGED <<treeVars, pragmaVars, outDir, outFile, prevOut, run, source, k,
                   decl, impl, reads>>

\* merge.py:42: the recursion has no depth of its own to stop at; the interpreter's limit ends it
Overflow ==
    /\ HasPending
    /\ ~SkipCond(Pending)
    /\ Len(stack) >= MaxDepth
    /\ stack' = <<>>
    /\ pc' = "failed"
    /\ err' = "RecursionError"
    /\ UNCHANGED <<treeVars, pragmaVars, outDir, outFile, prevOut, run, seen, source, k,
                   decl, impl, reads>>

\* merge.py:43-44, and the caller's use of the value (line 42, 65 or 66)
Return ==
    /\ stack # <<>>
    /\ Top.todo = <<>>
    /\ Deliver(Flattened(Top.content, Top.raw), Front(stack))
    /\ UNCHANGED <<treeVars, pragmaVars, outDir, outFile, prevOut, run, seen, source,
                   reads, err>>

\* merge.py:64-72
Write ==
    /\ pc = "units"
    /\ stack = <<>>
    /\ k = Len(source)
    /\ outFile' = RemovePragmaOnce(Format(decl, impl))
    /\ pc' = "done"
    /\ UNCHANGED <<treeVars, pragmaVars, outDir, prevOut, run, seen, source, k, decl,
                   impl, stack, reads, err>>

\* a visited set carried over from the previous run
StaleSeen == seen

\* merge.py:7: the set a new process starts with
FreshSeen == {}

\* the process has ended; the script is executed again on the unchanged tree
Rerun ==
    /\ pc \in {"done", "failed"}
    /\ run < MaxRuns
    /\ run' = run + 1
    /\ prevOut' = outFile
    /\ seen' = FreshSeen
    /\ source' = <<>>
    /\ k' = 0
    /\ decl' = <<>>
    /\ impl' = <<>>
    /\ stack' = <<>>
    /\ reads' = {}
    /\ pc' = "start"
    /\ err' = "none"
    /\ UNCHANGED <<treeVars, pragmaVars, outDir, outFile>>

Next ==
    \/ Start
    \/ Skip
    \/ Enter
    \/ EnterFail
    \/ Overflow
    \/ Return
    \/ Write
    \/ Rerun

Spec == Init /\ [][Next]_vars

---------------------------------------------------------------------------
(* The pragma-strip step on its own: remove_pragma_once applied to a text, *)
(* and again to its result.                                                *)

Pieces == {PragmaPrefix, <<"x">>, <<" ">>, <<NL>>, <<"\r">>}

Texts == {Concat(ps) : ps \in UNION {[1..n -> Pieces] : n \in 0..MaxPieces}}

InitPragma ==
    /\ fs = Tree(ExampleRoot, ExampleA, Absent, ExampleU, Absent)
    /\ listing = <<P_main, P_u>>
    /\ unreadable = {}
    /\ outDir = FALSE
    /\ outFile = Absent
    /\ prevOut = Absent
    /\ run = 1
    /\ seen = {}
    /\ source = <<>>
    /\ k = 0
    /\ decl = <<>>
    /\ impl = <<>>
    /\ stack = <<>>
    /\ reads = {}
    /\ pc = "start"
    /\ err = "none"
    /\ t \in Texts
    /\ once = Absent
    /\ twice = Absent

Rest == <<treeVars, outDir, outFile, prevOut, run, seen, source, k, decl, impl, stack,
          reads, pc, err>>

ApplyOnce ==
    /\ once = Absent
    /\ once' = RemovePragmaOnce(t)
    /\ UNCHANGED <<Rest, t, twice>>

ApplyTwice ==
    /\ once # Absent
    /\ twice = Absent
    /\ twice' = RemovePragmaOnce(once)
    /\ UNCHANGED <<Rest, t, once>>

NextPragma ==
    \/ ApplyOnce
    \/ ApplyTwice

SpecPragma == InitPragma /\ [][NextPragma]_vars

---------------------------------------------------------------------------
(* What the claims speak of, read off the source tree and the output *)

\* the file's name, its final path segment, is in the ignored set
IgnoredName(path) == path # <<>> /\ Last(path) \in IGNORE

\* a line is a local-include directive
Directive(x) == StartsWith(x, <<"#","i","n","c","l","u","d","e"," ","\"">>)

\* the text of file f, its includes as paths, and the files they name
TextOf(f) == Universal(fs[f])
IncludePaths(f) ==
    LET lines == SelectSeq(Splitlines(TextOf(f)), Directive)
    IN  {JoinPath(Parent(f), Strip(Split(lines[i])[2], "\"")) : i \in 1..Len(lines)}
Targets(f) == {Canon(p) : p \in {q \in IncludePaths(f) : ~IgnoredName(q)}} \cap DOMAIN fs

\* the root and the unit files
Roots == ({MainHeader} \cup {f \in Range(listing) : ~IgnoredName(f)}) \cap DOMAIN fs

RECURSIVE Grow(_, _)
Grow(found, frontier) ==
    IF frontier = {} THEN found
    ELSE Grow(found \cup frontier, UNION {Targets(f) : f \in frontier} \ (found \cup frontier))

\* the files of S and those reachable from them by includes
Closure(S) == Grow({}, S)

\* the non-ignored files reachable from the root or a unit file
Reachable == Closure(Roots)

\* G is reachable from F by one or more includes
Includes(f, g) == g \in Closure(Targets(f))

\* the body of f: its lines that are neither include directives nor pragma-once lines
Body(f) == SelectSeq(Splitlines(TextOf(f)), LAMBDA x : ~Directive(x) /\ ~StartsWith(x, <<"#","p","r","a","g","m","a"," ","o","n","c","e">>))

\* the line numbers of `text` at which the body of f starts
Positions(text, f) ==
    LET lines == Splitlines(text)
        b == Body(f)
    IN  {i \in 1..(Len(lines) - Len(b) + 1) : SubSeq(lines, i, i + Len(b) - 1) = b}

\* the files of set F whose body is in `text`
Emitted(text, F) ==
    LET lines == Splitlines(text)
    IN  {f \in F : LET b == Body(f)
                    IN  \E i \in 1..(Len(lines) - Len(b) + 1) : SubSeq(lines, i, i + Len(b) - 1) = b}

\* nothing the run must read is missing or unreadable
Intact ==
    /\ Roots \cap unreadable = {}
    /\ MainHeader \in DOMAIN fs
    /\ \A f \in Reachable :
          /\ f \notin unreadable
          /\ \A p \in IncludePaths(f) : IgnoredName(p) \/ CanOpen(p)

\* the text flattened so far, in the order it will reach the output
OutSoFar == decl \o impl \o Concat([i \in 1..Len(stack) |-> stack[i].content])

Written == pc = "done"

---------------------------------------------------------------------------
(* Claims *)

\* C1: after a successful run, the body of every non-ignored file reachable from the
\* root or a unit file is in the merged output exactly once, whatever the spelling of
\* the include paths that reach it.
NoDuplication ==
    Written => \A f \in Reachable : Cardinality(Positions(outFile, f)) = 1

\* C2 (as stated): whenever F includes G directly, both non-ignored, cyclic graphs
\* included, G's body is in the merged output strictly before F's body.
DependencyOrderAnyGraph ==
    Written => \A f \in Reachable : \A g \in Targets(f) :
                   \A i \in Positions(outFile, f) : \E j \in Positions(outFile, g) : j < i

\* C2 (amended): whenever F includes G directly, both non-ignored, and G does not in
\* turn include F (directly or transitively), a copy of G's body is in the merged
\* output strictly before each copy of F's body.
DependencyOrderAcyclic ==
    Written => \A f \in Reachable : \A g \in Targets(f) :
                   ~Includes(g, f) =>
                       /\ Positions(outFile, f) # {}
                       /\ \A i \in Positions(outFile, f) :
                              \E j \in Positions(outFile, g) : j < i

\* C2 witness: a run has written an output for a tree in which one file includes another
\* that does not include it back, and another pair of files include each other.
DependencyOrderReached ==
    /\ Written
    /\ \E f \in Reachable : \E g \in Targets(f) : ~Includes(g, f)
    /\ \E f \in Reachable : \E g \in Targets(f) : g # f /\ Includes(g, f)

\* C3: when no file is missing or unreadable, the run ends without an error, also on
\* include cycles, and the body of each file on a cycle is in the output exactly once.
CycleSafety ==
    Intact =>
        /\ pc # "failed"
        /\ Written => \A f \in Reachable :
                          Includes(f, f) => Cardinality(Positions(outFile, f)) = 1

\* C4: a file whose name is in the ignored set, or that is reachable only through such a
\* file, is never read, never traversed, has no body text in the flattened text or the
\* written output, and no ignored file is among the unit files.
IgnoreExclusion ==
    /\ \A i \in 1..Len(source) : ~IgnoredName(source[i])
    /\ LET excluded == DOMAIN fs \ {f \in Reachable : ~IgnoredName(f)}
       IN  /\ reads \cap excluded = {}
           /\ \A i \in 1..Len(stack) : Canon(stack[i].path) \notin excluded
           /\ Emitted(OutSoFar, excluded) = {}
           /\ outFile # Absent => Emitted(outFile, excluded) = {}

\* C4 witness: a run has written its output after reading a file that includes an
\* existing ignored file, with an ignored file among the directory's .cpp entries.
IgnoreExclusionReached ==
    /\ Written
    /\ \E i \in 1..Len(listing) : IgnoredName(listing[i])
    /\ \E f \in reads : \E p \in IncludePaths(f) : IgnoredName(p) /\ Canon(p) \in DOMAIN fs

\* the sections of the specification's end-to-end example
ExampleSections ==
    ( /\ Written
      /\ fs[MainHeader] = ExampleRoot
      /\ fs[P_a] = ExampleA
      /\ source = <<P_u>>
      /\ fs[P_u] = ExampleU )
    => /\ decl = <<"A","-","b","o","d","y","\n","\n","R","-","b","o","d","y","\n","\n">>
       /\ impl = <<"U","-","b","o","d","y","\n","\n">>

\* C5: a file emitted into the declaration section, or by an earlier unit, is not emitted
\* again in the implementation section; and the example's two sections are exactly
\* "A-body\n\nR-body\n\n" and "U-body\n\n".
CrossSectionDedup ==
    /\ Written => \A f \in Reachable :
                      /\ Positions(decl, f) # {} => Positions(impl, f) = {}
                      /\ Cardinality(Positions(impl, f)) <= 1
    /\ ExampleSections

\* C6: a run in which a needed file is missing or unreadable does not complete, and the
\* output file is written only by a run that has flattened the root and every unit:
\* until then it is as it was when the run started.
FailureAtomicity ==
    /\ Written => Intact
    /\ ~Written => outFile = prevOut

\* C6 witness: a run has flattened the root, then failed on a file it could not open,
\* with an older output file in place.
FailureAtomicityReached ==
    /\ pc = "failed"
    /\ err = "OSError"
    /\ decl # <<>>
    /\ outFile = Stale

\* C7: no line of the written output is a local-include directive.
DirectiveStripping ==
    outFile # Absent =>
        /\ \A x \in Range(Splitlines(outFile)) : ~Directive(x)
        /\ \A x \in Range(SplitOn(outFile, NL)) : ~Directive(x)

\* C7 witness: a run has written its output from files that hold include directives
\* and a pragma-once line.
DirectiveStrippingReached ==
    /\ Written
    /\ Cardinality(reads) >= 3
    /\ \E f \in reads : IncludePaths(f) # {}
    /\ \E f \in reads : \E x \in Range(Splitlines(TextOf(f))) : IsPragma(x)

PragmaIdempotent ==
    /\ once # Absent => \A x \in Range(Splitlines(once)) : ~IsPragma(x)
    /\ twice # Absent => twice = once

\* C9 witness: the step has been applied twice to a text that holds a pragma-once line
\* and does not end in a newline.
PragmaIdempotentReached ==
    /\ twice # Absent
    /\ t # <<>> /\ Last(t) # NL
    /\ \E x \in Range(Splitlines(t)) : IsPragma(x)
    /\ once # t

\* C10: within a run the visited set only grows; the path of every file being
\* flattened, and of every file whose body is in the flattened text, is in it; and a
\* call on a visited or ignored path reads nothing, recurses into nothing, returns
\* empty text and leaves the visited set as it is.
VisitedSetInvariant ==
    [][ /\ run' = run => seen \subseteq seen'
        /\ \A i \in 1..Len(stack') : Str(stack'[i].path) \in seen'
        /\ Emitted(OutSoFar', DOMAIN fs) \subseteq {Canon(ParseParts(p)) : p \in seen'}
        /\ (HasPending /\ (Str(Pending) \in seen \/ IgnoredName(Pending))) =>
              /\ seen' = seen
              /\ reads' = reads
              /\ Len(stack') = Len(stack)
              /\ OutSoFar' = OutSoFar ]_vars

\* C10 witness: a file being flattened has had all its includes handled, one of them
\* naming a path that was already in the visited set because it is still being flattened.
VisitedSetReached ==
    /\ stack # <<>>
    /\ Top.todo = <<>>
    /\ \E i \in 1..Len(stack) : \E inc \in Range(GetIncludes(Top.raw)) :
           Str(JoinPath(Parent(Top.path), inc)) = Str(stack[i].path)

====
